---- MODULE Spec2Model ----
(***************************************************************************)
(* rezip: flatten and deduplicate a ZIP archive (internal/repackage), then *)
(* optionally validate the produced archive against the registry returned  *)
(* by the repackaging (internal/validate), driven by cmd/main.go.          *)
(*                                                                         *)
(* A path inside an archive is a sequence of its components, a content is  *)
(* a sequence of bytes, a *zip.File is identified by its index in          *)
(* reader.File.  A Go map is a function; ranging over a map picks the keys *)
(* in any order.  Failures of the file system are choices of the           *)
(* environment; ioFault records that one was taken.                        *)
(*                                                                         *)
(* Spec is main from repackage.Run on, SpecValidate is validate.Run on any *)
(* archive and registry, SpecParse is args.Parse on any command line and   *)
(* file system; SpecRerun and SpecRevalidate add a second call on what the *)
(* first one left, previous keeping what the first call produced.          *)
(***************************************************************************)
EXTENDS Naturals, Sequences, FiniteSets

VARIABLES
    files,               \* reader.File: the entries of the input archive, in archive order
    Validate,            \* cliOptions.Validate
    pc,                  \* position of the program
    idx,                 \* position of the range loop of flattenAndDeduplicate
    deduplicatedFiles,   \* base name -> index of the surviving entry in files
    pendingNames,        \* keys that a range loop in progress has still to visit
    outputFileRegistry,  \* createOutputZip's registry under construction
    fileMetadata,        \* the registry Run returned (the empty map for nil)
    runErr,              \* the error Run returned
    outputFile,          \* the file at the output path
    outputBefore,        \* the file at the output path when Run was called
    hashed,              \* indices of the entries flattenAndDeduplicate has hashed
    open,                \* the handles that are open
    ioFault,             \* an operation of the file system has failed
    expectedFiles,       \* validate.Run's expectedFiles
    actualFiles,         \* member name -> index of the member in the output archive
    results,             \* validateFileHashes' results
    allMatch,            \* validateFileHashes' allMatch
    valRet,              \* the boolean validate.Run returned
    valErr,              \* the error validate.Run returned
    reportFile,          \* the file at the report path
    reportBefore,        \* the file at the report path when validate.Run was called
    outcome,             \* what main printed and the status the process ended with
    previous,            \* what the call before this one, on the same files, produced
    arguments,           \* os.Args
    fileSystem,          \* what the file system holds at the paths args.Parse inspects
    cliOptions,          \* the *Config args.Parse returned
    parseErr,            \* the error args.Parse returned
    outputZipPath,       \* writeValidationReport's outputZipPath, as characters
    reportPath           \* writeValidationReport's reportPath, as characters

vars == <<files, Validate, pc, idx, deduplicatedFiles, pendingNames, outputFileRegistry,
          fileMetadata, runErr, outputFile, outputBefore, hashed, open, ioFault,
          expectedFiles, actualFiles, results, allMatch, valRet, valErr, reportFile,
          reportBefore, outcome, previous, arguments, fileSystem, cliOptions, parseErr,
          outputZipPath, reportPath>>

pathVars == <<outputZipPath, reportPath>>

argsVars == <<arguments, fileSystem, cliOptions, parseErr>>

repackageVars == <<files, idx, deduplicatedFiles, outputFileRegistry, fileMetadata, runErr,
                   outputBefore, hashed>>

validateVars == <<expectedFiles, actualFiles, results, allMatch, valRet, valErr, reportFile,
                  reportBefore, outcome>>

----------------------------------------------------------------------------
(* Bounds and input domains *)

MaxLen == 3

MaxMembers == 2

\* The entries an input archive is made of: colliding base names with equal
\* and different sizes and contents, and every kind of entry that is skipped.
Entries ==
    { [Name |-> <<"a", "x">>,         kind |-> "file",    content |-> <<1>>],
      [Name |-> <<"b", "x">>,         kind |-> "file",    content |-> <<2>>],
      [Name |-> <<"c", "x">>,         kind |-> "file",    content |-> <<1>>],
      [Name |-> <<"d", "x">>,         kind |-> "file",    content |-> <<1, 2>>],
      [Name |-> <<"y">>,              kind |-> "file",    content |-> <<2>>],
      [Name |-> <<"__MACOSX", "x">>,  kind |-> "file",    content |-> <<2>>],
      [Name |-> <<"e", ".DS_Store">>, kind |-> "file",    content |-> <<1>>],
      [Name |-> <<"Thumbs.db">>,      kind |-> "file",    content |-> <<1, 2>>],
      [Name |-> <<"x">>,              kind |-> "dir",     content |-> <<>>],
      [Name |-> <<"f", "x">>,         kind |-> "symlink", content |-> <<2>>] }

SeqsUpTo(S, n) == UNION { [1..k -> S] : k \in 0..n }

EmptyMap == [n \in {} |-> 0]

MapPut(m, k, v) == [n \in (DOMAIN m) \cup {k} |-> IF n = k THEN v ELSE m[n]]

NoError == [kind |-> "none", name |-> "", paths |-> <<>>]

Failure(k) == [kind |-> k, name |-> "", paths |-> <<>>]

----------------------------------------------------------------------------
(* Metadata of an entry *)

\* filepath.Base: the final component of the path
Base(name) == name[Len(name)]

\* zip.File.FileInfo().Size(): the size of the content
Size(f) == Len(f.content)

IsDir(f) == f.kind = "dir"

isSymlink(f) == f.kind = "symlink"

isMetadataFile(name) ==
    \/ Base(name) \in {".DS_Store", "Thumbs.db"}
    \/ \E i \in 1..Len(name) : name[i] = "__MACOSX"

RECURSIVE Digest(_, _)
Digest(content, i) ==
    IF i > Len(content) THEN 7
    ELSE (31 * Digest(content, i + 1) + content[i] + 1) % 256

\* HashOf: the digest of the content of an entry, as a sequence of bytes
HashOf(content) == <<Digest(content, 1), Len(content) % 256>>

HexDigit(n) == <<"0", "1", "2", "3", "4", "5", "6", "7", "8", "9",
                 "a", "b", "c", "d", "e", "f">>[n + 1]

\* hex.EncodeToString: two lowercase hexadecimal digits for each byte
RECURSIVE EncodeToString(_)
EncodeToString(bytes) ==
    IF bytes = <<>> THEN <<>>
    ELSE <<HexDigit(bytes[1] \div 16), HexDigit(bytes[1] % 16)>>
         \o EncodeToString(Tail(bytes))

----------------------------------------------------------------------------
(* repackage.Run *)

\* mutant: only directories are skipped
ShouldSkipDirectoriesOnly(currentFile) == IsDir(currentFile)

\* directories are skipped, and so are metadata files, but symbolic links are kept
ShouldSkipKeepsSymlinks(currentFile) ==
    IsDir(currentFile) \/ isMetadataFile(currentFile.Name)

\* directories and symbolic links are skipped, metadata files are kept
ShouldSkipKeepsMetadata(currentFile) == IsDir(currentFile) \/ isSymlink(currentFile)

ShouldSkip(currentFile) ==
    IsDir(currentFile) \/ isSymlink(currentFile) \/ isMetadataFile(currentFile.Name)

\* the contents are compared whenever the names collide, whatever the sizes
SameSizeAlways(existingFile, currentFile) == TRUE

SameSize(existingFile, currentFile) == Size(existingFile) = Size(currentFile)

\* mutant: the comparison of the sizes is reversed
Smaller(existingFile, currentFile) == Size(currentFile) < Size(existingFile)

Larger(existingFile, currentFile) == Size(currentFile) > Size(existingFile)

areFileHashesIdentical(existingFile, currentFile) ==
    HashOf(existingFile.content) = HashOf(currentFile.content)

\* mutant: a content-identical entry replaces the incumbent
DecideKeepsLatest(existingFile, currentFile) ==
    IF Size(existingFile) = Size(currentFile)
    THEN IF areFileHashesIdentical(existingFile, currentFile) THEN "replace" ELSE "conflict"
    ELSE IF Size(currentFile) > Size(existingFile) THEN "replace" ELSE "keep"

\* an entry of another size replaces the incumbent, larger or not
DecideLastWins(existingFile, currentFile) ==
    IF SameSize(existingFile, currentFile)
    THEN IF areFileHashesIdentical(existingFile, currentFile) THEN "duplicate" ELSE "conflict"
    ELSE "replace"

\* the switch on the sizes of the incumbent and the current entry of the same base name
Decide(existingFile, currentFile) ==
    IF SameSize(existingFile, currentFile)
    THEN IF areFileHashesIdentical(existingFile, currentFile) THEN "duplicate" ELSE "conflict"
    ELSE IF Larger(existingFile, currentFile) THEN "replace" ELSE "keep"

\* the two paths are given with the entry being processed first
ConflictErrorCurrentFirst(baseName, existingFile, currentFile) ==
    [kind |-> "conflict", name |-> baseName,
     paths |-> <<currentFile.Name, existingFile.Name>>]

ConflictError(baseName, existingFile, currentFile) ==
    [kind |-> "conflict", name |-> baseName,
     paths |-> <<existingFile.Name, currentFile.Name>>]

\* mutant: the registry records the zero value of the hash
RegistryRecordZeroHash(zipEntry, fileHash) ==
    [OriginalPath |-> zipEntry.Name, Hash |-> <<0, 0>>]

\* the hash recorded is taken over the entry's path, not over its content
RegistryRecordHashesPath(zipEntry, fileHash) ==
    [OriginalPath |-> zipEntry.Name, Hash |-> <<Len(zipEntry.Name), 0>>]

RegistryRecord(zipEntry, fileHash) == [OriginalPath |-> zipEntry.Name, Hash |-> fileHash]

Member(baseName, zipEntry) ==
    [Name |-> baseName, content |-> zipEntry.content, Method |-> "Store"]

\* Run returns without closing the reader of the input archive
RunReturnsLeaksReader(registry, err) ==
    /\ fileMetadata' = registry
    /\ runErr' = err
    /\ open' = open
    /\ pc' = "main"

\* Run returns: the deferred reader.Close() has run
RunReturns(registry, err) ==
    /\ fileMetadata' = registry
    /\ runErr' = err
    /\ open' = open \ {"reader"}
    /\ pc' = "main"

\* mutant: the output file is created before the input is read
OpenInputCreatesOutput ==
    /\ pc = "Run"
    /\ outputFile' = [state |-> "writing", members |-> <<>>]
    /\ \/ /\ open' = open \cup {"reader"}
          /\ pc' = "dedup"
          /\ UNCHANGED <<fileMetadata, runErr, ioFault>>
       \/ /\ RunReturns(EmptyMap, Failure("open"))
          /\ ioFault' = TRUE
    /\ UNCHANGED <<previous, pathVars, argsVars,
                   files, Validate, idx, deduplicatedFiles, pendingNames, outputFileRegistry,
                   outputBefore, hashed, validateVars>>

\* zip.OpenReader(inputPath)
OpenInput ==
    /\ pc = "Run"
    /\ \/ /\ open' = open \cup {"reader"}
          /\ pc' = "dedup"
          /\ UNCHANGED <<fileMetadata, runErr, ioFault>>
       \/ /\ RunReturns(EmptyMap, Failure("open"))
          /\ ioFault' = TRUE
    /\ UNCHANGED <<previous, pathVars, argsVars,
                   files, Validate, idx, deduplicatedFiles, pendingNames, outputFileRegistry,
                   outputFile, outputBefore, hashed, validateVars>>

\* one iteration of the range loop of flattenAndDeduplicate
DedupStep ==
    /\ pc = "dedup"
    /\ idx <= Len(files)
    /\ LET currentFile == files[idx]
           baseName == Base(currentFile.Name)
       IN  IF ShouldSkip(currentFile)
           THEN /\ idx' = idx + 1
                /\ UNCHANGED <<deduplicatedFiles, hashed, fileMetadata, runErr, open, pc,
                               ioFault>>
           ELSE IF baseName \notin DOMAIN deduplicatedFiles
           THEN /\ deduplicatedFiles' = MapPut(deduplicatedFiles, baseName, idx)
                /\ idx' = idx + 1
                /\ UNCHANGED <<hashed, fileMetadata, runErr, open, pc, ioFault>>
           ELSE LET existingFile == files[deduplicatedFiles[baseName]]
                    decision == Decide(existingFile, currentFile)
                IN  /\ hashed' = IF SameSize(existingFile, currentFile)
                                 THEN hashed \cup {deduplicatedFiles[baseName], idx}
                                 ELSE hashed
                    /\ \/ /\ decision \in {"duplicate", "keep"}
                          /\ idx' = idx + 1
                          /\ UNCHANGED <<deduplicatedFiles, fileMetadata, runErr, open, pc,
                                         ioFault>>
                       \/ /\ decision = "replace"
                          /\ deduplicatedFiles' = MapPut(deduplicatedFiles, baseName, idx)
                          /\ idx' = idx + 1
                          /\ UNCHANGED <<fileMetadata, runErr, open, pc, ioFault>>
                       \/ /\ decision = "conflict"
                          /\ RunReturns(EmptyMap,
                                        ConflictError(baseName, existingFile, currentFile))
                          /\ UNCHANGED <<idx, deduplicatedFiles, ioFault>>
                       \/ /\ SameSize(existingFile, currentFile)
                          /\ RunReturns(EmptyMap, [Failure("compare") EXCEPT !.name = baseName])
                          /\ ioFault' = TRUE
                          /\ UNCHANGED <<idx, deduplicatedFiles>>
    /\ UNCHANGED <<previous, pathVars, argsVars,
                   files, Validate, pendingNames, outputFileRegistry, outputFile,
                   outputBefore, validateVars>>

\* flattenAndDeduplicate has returned its map and Run calls createOutputZip:
\* os.Create(outputPath), zip.NewWriter, make(map)
\* the file is opened without being truncated: what it held stays in front
CreateKeepsContent(file) == [state |-> "writing", members |-> file.members]

\* os.Create(outputPath): the file is created, or truncated when it exists
Create(file) == [state |-> "writing", members |-> <<>>]

CreateOutput ==
    /\ pc = "dedup"
    /\ idx > Len(files)
    /\ \/ /\ outputFile' = Create(outputFile)
          /\ open' = open \cup {"outputFile", "zipWriter"}
          /\ outputFileRegistry' = EmptyMap
          /\ pendingNames' = DOMAIN deduplicatedFiles
          /\ pc' = "write"
          /\ UNCHANGED <<fileMetadata, runErr, ioFault>>
       \/ /\ RunReturns(EmptyMap, Failure("create"))
          /\ ioFault' = TRUE
          /\ UNCHANGED <<outputFile, outputFileRegistry, pendingNames>>
    /\ UNCHANGED <<previous, pathVars, argsVars,
                   files, Validate, idx, deduplicatedFiles, outputBefore, hashed,
                   validateVars>>

\* the deferred zipWriter.Close() and outputFile.Close() of createOutputZip:
\* Close writes the central directory; its error is dropped
CloseOutput(ok) ==
    /\ outputFile' = [outputFile EXCEPT !.state = IF ok THEN "archive" ELSE "broken"]
    /\ open' = open \ {"outputFile", "zipWriter", "reader"}

\* the registry built so far is returned along with the error
RegistryOnFailureKeepsWritten(registry) == registry

\* return nil, fmt.Errorf(...): no registry comes with the error
RegistryOnFailure(registry) == EmptyMap

\* one iteration of the range loop of createOutputZip
WriteEntry ==
    /\ pc = "write"
    /\ \E baseName \in pendingNames :
         LET zipEntry == files[deduplicatedFiles[baseName]]
         IN  \/ /\ outputFile' = [outputFile EXCEPT
                                    !.members = Append(@, Member(baseName, zipEntry))]
                /\ outputFileRegistry' =
                       MapPut(outputFileRegistry, baseName,
                              RegistryRecord(zipEntry, HashOf(zipEntry.content)))
                /\ pendingNames' = pendingNames \ {baseName}
                /\ UNCHANGED <<fileMetadata, runErr, open, pc, ioFault>>
             \/ /\ \E ok \in BOOLEAN : CloseOutput(ok)
                /\ fileMetadata' = RegistryOnFailure(outputFileRegistry)
                /\ runErr' = [Failure("write") EXCEPT !.name = baseName]
                /\ pc' = "main"
                /\ ioFault' = TRUE
                /\ UNCHANGED <<outputFileRegistry, pendingNames>>
    /\ UNCHANGED <<previous, pathVars, argsVars,
                   files, Validate, idx, deduplicatedFiles, outputBefore, hashed,
                   validateVars>>

\* createOutputZip returns the registry, and Run returns it
CreateReturn ==
    /\ pc = "write"
    /\ pendingNames = {}
    /\ \/ /\ CloseOutput(TRUE)
          /\ UNCHANGED ioFault
       \/ /\ CloseOutput(FALSE)
          /\ ioFault' = TRUE
    /\ fileMetadata' = outputFileRegistry
    /\ runErr' = NoError
    /\ pc' = "main"
    /\ UNCHANGED <<previous, pathVars, argsVars,
                   files, Validate, idx, deduplicatedFiles, pendingNames, outputFileRegistry,
                   outputBefore, hashed, validateVars>>

----------------------------------------------------------------------------
(* cmd/main.go *)

Exit(code, message) == [code |-> code, message |-> message]

\* main calls validate.Run whether or not the flag was given
MainAfterRunAlwaysValidates ==
    /\ pc = "main"
    /\ IF runErr.kind # "none"
       THEN /\ outcome' = Exit(1, "Repackaging Error")
            /\ pc' = "exit"
            /\ UNCHANGED <<expectedFiles, reportBefore>>
       ELSE /\ expectedFiles' = fileMetadata
            /\ reportBefore' = reportFile
            /\ pc' = "readOutputZip"
            /\ UNCHANGED outcome
    /\ UNCHANGED <<previous, pathVars, argsVars,
                   repackageVars, Validate, pendingNames, outputFile, open, ioFault,
                   actualFiles, results, allMatch, valRet, valErr, reportFile>>

\* main after repackage.Run has returned
MainAfterRun ==
    /\ pc = "main"
    /\ IF runErr.kind # "none"
       THEN /\ outcome' = Exit(1, "Repackaging Error")
            /\ pc' = "exit"
            /\ UNCHANGED <<expectedFiles, reportBefore>>
       ELSE IF ~Validate
       THEN /\ outcome' = Exit(0, "Successfully repackaged")
            /\ pc' = "exit"
            /\ UNCHANGED <<expectedFiles, reportBefore>>
       ELSE /\ expectedFiles' = fileMetadata
            /\ reportBefore' = reportFile
            /\ pc' = "readOutputZip"
            /\ UNCHANGED outcome
    /\ UNCHANGED <<previous, pathVars, argsVars,
                   repackageVars, Validate, pendingNames, outputFile, open, ioFault,
                   actualFiles, results, allMatch, valRet, valErr, reportFile>>

\* main after validate.Run has returned
MainAfterValidate ==
    /\ pc = "afterValidate"
    /\ outcome' = IF valErr.kind # "none"
                  THEN Exit(0, "Successfully repackaged, but validation encountered an error")
                  ELSE Exit(0, "Successfully repackaged and performed validation")
    /\ pc' = "exit"
    /\ UNCHANGED <<previous, pathVars, argsVars,
                   repackageVars, Validate, pendingNames, outputFile, open, ioFault,
                   expectedFiles, actualFiles, results, allMatch, valRet, valErr, reportFile,
                   reportBefore>>

----------------------------------------------------------------------------
(* validate.Run *)

\* the map readOutputZip builds: a later member replaces an earlier one of the same name
IndexByName(members) ==
    [n \in { members[i].Name : i \in DOMAIN members } |->
        CHOOSE i \in DOMAIN members :
            /\ members[i].Name = n
            /\ \A j \in DOMAIN members : members[j].Name = n => j <= i]

\* mutant: the expected digest is compared with itself
HashesMatchItself(expectedHash, actualHash) ==
    EncodeToString(expectedHash) = EncodeToString(expectedHash)

HashesMatch(expectedHash, actualHash) ==
    EncodeToString(expectedHash) = EncodeToString(actualHash)

validationResult(name, expectedInfo, actualHash) ==
    [FileName |-> name,
     OriginalPath |-> expectedInfo.OriginalPath,
     OriginalSHA |-> EncodeToString(expectedInfo.Hash),
     NewSHA |-> EncodeToString(actualHash),
     Match |-> HashesMatch(expectedInfo.Hash, actualHash)]

\* mutant: the error does not name the file
MissingErrorUnnamed(name) == Failure("missing")

MissingError(name) == [Failure("missing") EXCEPT !.name = name]

\* mutant: allMatch is the match of the last entry
AccumulateLast(all, match) == match

Accumulate(all, match) == all /\ match

\* json.MarshalIndent(results): an array of objects named by the struct tags
MarshalIndent(rs) ==
    [i \in DOMAIN rs |->
        [file_name |-> rs[i].FileName,
         original_path |-> rs[i].OriginalPath,
         original_sha |-> rs[i].OriginalSHA,
         new_sha |-> rs[i].NewSHA,
         match |-> rs[i].Match]]

\* validate.Run returns: the deferred Close calls have run
ValReturns(ok, err) ==
    /\ valRet' = ok
    /\ valErr' = err
    /\ open' = open \ {"zipReader", "reportFile"}
    /\ pc' = "afterValidate"

\* the archive must have as many members as the registry has names
InitialAllMatchCountsMembers(actual, expected) ==
    Cardinality(DOMAIN actual) = Cardinality(DOMAIN expected)

\* allMatch := true
InitialAllMatch(actual, expected) == TRUE

\* readOutputZip: zip.OpenReader(outputZipPath) and the index of its members
ReadOutputZip ==
    /\ pc = "readOutputZip"
    /\ \/ /\ outputFile.state = "archive"
          /\ actualFiles' = IndexByName(outputFile.members)
          /\ open' = open \cup {"zipReader"}
          /\ results' = <<>>
          /\ allMatch' = InitialAllMatch(IndexByName(outputFile.members), expectedFiles)
          /\ pendingNames' = DOMAIN expectedFiles
          /\ pc' = "validateFileHashes"
          /\ UNCHANGED <<valRet, valErr, ioFault>>
       \/ /\ ValReturns(FALSE, Failure("open"))
          /\ ioFault' = (ioFault \/ outputFile.state = "archive")
          /\ UNCHANGED <<actualFiles, results, allMatch, pendingNames>>
    /\ UNCHANGED <<previous, pathVars, argsVars,
                   repackageVars, Validate, outputFile, expectedFiles, reportFile,
                   reportBefore, outcome>>

\* one iteration of the range loop of validateFileHashes
ValidateEntry ==
    /\ pc = "validateFileHashes"
    /\ \E name \in pendingNames :
         IF name \notin DOMAIN actualFiles
         THEN /\ ValReturns(FALSE, MissingError(name))
              /\ results' = <<>>
              /\ allMatch' = FALSE
              /\ UNCHANGED <<pendingNames, ioFault>>
         ELSE LET actualFile == outputFile.members[actualFiles[name]]
                  result == validationResult(name, expectedFiles[name],
                                             HashOf(actualFile.content))
              IN  \/ /\ results' = Append(results, result)
                     /\ allMatch' = Accumulate(allMatch, result.Match)
                     /\ pendingNames' = pendingNames \ {name}
                     /\ UNCHANGED <<valRet, valErr, open, pc, ioFault>>
                  \/ /\ ValReturns(FALSE, [Failure("hash") EXCEPT !.name = name])
                     /\ results' = <<>>
                     /\ allMatch' = FALSE
                     /\ ioFault' = TRUE
                     /\ UNCHANGED pendingNames
    /\ UNCHANGED <<previous, pathVars, argsVars,
                   repackageVars, Validate, outputFile, expectedFiles, actualFiles,
                   reportFile, reportBefore, outcome>>

\* validateFileHashes has returned and Run calls writeValidationReport: os.Create(reportPath)
CreateReport ==
    /\ pc = "validateFileHashes"
    /\ pendingNames = {}
    /\ \/ /\ reportFile' = [state |-> "empty", content |-> <<>>]
          /\ open' = open \cup {"reportFile"}
          /\ pc' = "writeReport"
          /\ UNCHANGED <<valRet, valErr, ioFault>>
       \/ /\ ValReturns(FALSE, Failure("report-create"))
          /\ ioFault' = TRUE
          /\ UNCHANGED reportFile
    /\ UNCHANGED <<previous, pathVars, argsVars,
                   repackageVars, Validate, pendingNames, outputFile, expectedFiles,
                   actualFiles, results, allMatch, reportBefore, outcome>>

\* mutant: the error of reportFile.Write is dropped
WriteReportDropsError ==
    /\ pc = "writeReport"
    /\ \/ /\ reportFile' = [state |-> "complete", content |-> MarshalIndent(results)]
          /\ UNCHANGED ioFault
       \/ /\ \E left \in {"empty", "partial"} :
                reportFile' = [state |-> left, content |-> <<>>]
          /\ ioFault' = TRUE
    /\ ValReturns(allMatch, NoError)
    /\ UNCHANGED <<previous, pathVars, argsVars,
                   repackageVars, Validate, pendingNames, outputFile, expectedFiles,
                   actualFiles, results, allMatch, reportBefore, outcome>>

\* json.MarshalIndent and reportFile.Write; Run returns allMatch
WriteReport ==
    /\ pc = "writeReport"
    /\ \/ /\ reportFile' = [state |-> "complete", content |-> MarshalIndent(results)]
          /\ ValReturns(allMatch, NoError)
          /\ UNCHANGED ioFault
       \/ /\ \E left \in {"empty", "partial"} :
                reportFile' = [state |-> left, content |-> <<>>]
          /\ ValReturns(FALSE, Failure("report-write"))
          /\ ioFault' = TRUE
    /\ UNCHANGED <<previous, pathVars, argsVars,
                   repackageVars, Validate, pendingNames, outputFile, expectedFiles,
                   actualFiles, results, allMatch, reportBefore, outcome>>

----------------------------------------------------------------------------
(* The program: main runs repackage.Run, then validate.Run when asked to *)

NoFile == [state |-> "absent", content |-> <<>>]

OldFile == [state |-> "old", content |-> <<>>]

NoOutput == [state |-> "absent", members |-> <<>>]

\* what an earlier program left at the output path: not what this run writes
OldOutput ==
    [state |-> "old",
     members |-> <<[Name |-> "x", content |-> <<2, 2>>, Method |-> "Deflate"]>>]

NoPrevious ==
    [calls |-> 0, output |-> NoOutput, registry |-> EmptyMap, report |-> NoFile,
     err |-> NoError, survivors |-> EmptyMap, hashed |-> {}, ret |-> FALSE]

NilConfig == [nil |-> TRUE, InputZipPath |-> <<>>, OutputZipPath |-> <<>>, Validate |-> FALSE]

\* main has args.Parse behind it
ArgsIdle ==
    /\ arguments = <<>>
    /\ fileSystem = EmptyMap
    /\ cliOptions = NilConfig
    /\ parseErr = NoError

Idle ==
    /\ idx = 1
    /\ deduplicatedFiles = EmptyMap
    /\ pendingNames = {}
    /\ outputFileRegistry = EmptyMap
    /\ fileMetadata = EmptyMap
    /\ runErr = NoError
    /\ hashed = {}
    /\ open = {}
    /\ ioFault = FALSE
    /\ actualFiles = EmptyMap
    /\ results = <<>>
    /\ allMatch = FALSE
    /\ valRet = FALSE
    /\ valErr = NoError
    /\ outcome = Exit(0, "")
    /\ previous = NoPrevious
    /\ outputZipPath = <<>>
    /\ reportPath = <<>>

Init ==
    /\ files \in SeqsUpTo(Entries, MaxLen)
    /\ Validate \in BOOLEAN
    /\ outputFile \in {NoOutput, OldOutput}
    /\ outputBefore = outputFile
    /\ reportFile = NoFile
    /\ reportBefore = reportFile
    /\ expectedFiles = EmptyMap
    /\ pc = "Run"
    /\ Idle
    /\ ArgsIdle

Next ==
    \/ OpenInput
    \/ DedupStep
    \/ CreateOutput
    \/ WriteEntry
    \/ CreateReturn
    \/ MainAfterRun
    \/ ReadOutputZip
    \/ ValidateEntry
    \/ CreateReport
    \/ WriteReport
    \/ MainAfterValidate

Spec == Init /\ [][Next]_vars

----------------------------------------------------------------------------
(* validate.Run on any archive and any expected registry *)

MemberNames == {"x", "y"}

ExpectedNames == {"x", "y", "z"}

Contents == {<<1>>, <<2>>}

Members == [Name : MemberNames, content : Contents, Method : {"Store"}]

Registries ==
    UNION { [S -> { [OriginalPath |-> <<"a">>, Hash |-> HashOf(c)] : c \in Contents }] :
            S \in SUBSET ExpectedNames }

InitValidate ==
    /\ files = <<>>
    /\ Validate = TRUE
    /\ outputFile \in {NoOutput} \cup
                      { [state |-> "archive", members |-> m] :
                            m \in SeqsUpTo(Members, MaxMembers) }
    /\ outputBefore = outputFile
    /\ reportFile \in {NoFile, OldFile}
    /\ reportBefore = reportFile
    /\ expectedFiles \in Registries
    /\ pc = "readOutputZip"
    /\ Idle
    /\ ArgsIdle

NextValidate ==
    \/ ReadOutputZip
    \/ ValidateEntry
    \/ CreateReport
    \/ WriteReport

SpecValidate == InitValidate /\ [][NextValidate]_vars

----------------------------------------------------------------------------
(* The program run a second time, on the archive the first run produced *)

\* reader.File of an archive createOutputZip wrote: one regular file per member
ReadArchive(members) ==
    [i \in DOMAIN members |->
        [Name |-> <<members[i].Name>>, kind |-> "file", content |-> members[i].content]]

\* rezip out.zip out2.zip, after rezip in.zip out.zip has ended with success
Rerun ==
    /\ pc = "exit"
    /\ previous.calls = 0
    /\ ~Validate
    /\ runErr.kind = "none"
    /\ outputFile.state = "archive"
    /\ previous' = [NoPrevious EXCEPT !.calls = 1, !.output = outputFile,
                                      !.registry = fileMetadata]
    /\ files' = ReadArchive(outputFile.members)
    /\ outputFile' = NoOutput
    /\ outputBefore' = NoOutput
    /\ idx' = 1
    /\ deduplicatedFiles' = EmptyMap
    /\ outputFileRegistry' = EmptyMap
    /\ fileMetadata' = EmptyMap
    /\ hashed' = {}
    /\ outcome' = Exit(0, "")
    /\ pc' = "Run"
    /\ UNCHANGED <<pathVars, argsVars, Validate, pendingNames, runErr, open, ioFault, expectedFiles,
                   actualFiles, results, allMatch, valRet, valErr, reportFile,
                   reportBefore>>

NextRerun == Next \/ Rerun

SpecRerun == Init /\ [][NextRerun]_vars

----------------------------------------------------------------------------
(* repackage.Run alone, and called a second time on a rearranged input *)

InitRun ==
    /\ Init
    /\ ~Validate
    /\ outputFile = NoOutput

\* the candidate set as entries: base name -> the surviving entry
Survivors == [k \in DOMAIN deduplicatedFiles |-> files[deduplicatedFiles[k]]]

\* Run is called on input, with a fresh output path, after a first call in
\* which no operation of the file system failed has returned
RunAgain(input) ==
    /\ pc = "main"
    /\ previous.calls = 0
    /\ ~ioFault
    /\ previous' = [NoPrevious EXCEPT !.calls = 1, !.err = runErr, !.output = outputFile,
                                      !.registry = fileMetadata, !.survivors = Survivors,
                                      !.hashed = { files[i] : i \in hashed }]
    /\ files' = input
    /\ outputFile' = NoOutput
    /\ outputBefore' = NoOutput
    /\ idx' = 1
    /\ deduplicatedFiles' = EmptyMap
    /\ outputFileRegistry' = EmptyMap
    /\ fileMetadata' = EmptyMap
    /\ runErr' = NoError
    /\ hashed' = {}
    /\ pc' = "Run"
    /\ UNCHANGED <<pathVars, argsVars, validateVars, Validate, pendingNames, open, ioFault>>

NextRun ==
    \/ OpenInput
    \/ DedupStep
    \/ CreateOutput
    \/ WriteEntry
    \/ CreateReturn

Orders(S) == { p \in [S -> S] : \A i, j \in S : p[i] = p[j] => i = j }

\* the same entries in another order
RunPermuted ==
    \E p \in Orders(DOMAIN files) : RunAgain([i \in DOMAIN files |-> files[p[i]]])

NextPermuted == NextRun \/ RunPermuted

SpecPermuted == InitRun /\ [][NextPermuted]_vars

----------------------------------------------------------------------------
(* validate.Run called a second time on the same archive and registry *)

ValidateAgain ==
    /\ pc = "afterValidate"
    /\ previous.calls = 0
    /\ previous' = [NoPrevious EXCEPT !.calls = 1, !.report = reportFile, !.err = valErr]
    /\ reportBefore' = reportFile
    /\ actualFiles' = EmptyMap
    /\ results' = <<>>
    /\ allMatch' = FALSE
    /\ valRet' = FALSE
    /\ valErr' = NoError
    /\ pc' = "readOutputZip"
    /\ UNCHANGED <<pathVars, argsVars, repackageVars, Validate, pendingNames, outputFile, open,
                   ioFault, expectedFiles, reportFile, outcome>>

NextRevalidate == NextValidate \/ ValidateAgain

SpecRevalidate == InitValidate /\ [][NextRevalidate]_vars

----------------------------------------------------------------------------
(* args.Parse: the command line and the paths it names *)

\* the most arguments that follow the program name
MaxArgs == 4

\* an argument is a path, a sequence of components; an option is a path of one component
validateFlag == <<"--validate">>

ProgramName == <<"rezip">>

InputPaths == { <<"in.zip">>, <<".", "in.zip">>, <<"d">> }

OutputPaths == { <<"out.zip">>, <<"d", "out.zip">>, <<".", "in.zip">> }

Options == { validateFlag, <<"-v">> }

\* os.Args: the program name, then an input path, an output path and options
ArgumentLists ==
    { <<ProgramName>> \o a :
        a \in { b \in SeqsUpTo(InputPaths \cup OutputPaths \cup Options, MaxArgs) :
                  \A i \in DOMAIN b :
                      b[i] \in (CASE i = 1 -> InputPaths [] i = 2 -> OutputPaths
                                   [] OTHER -> Options) } }

WorkingDirectory == <<"/", "w">>

\* filepath.Clean, for paths without "..": the "." components are dropped
Clean(path) ==
    LET kept == SelectSeq(path, LAMBDA c : c # ".")
    IN  IF kept = <<>> THEN <<".">> ELSE kept

\* filepath.Abs: a relative path is joined to the working directory and cleaned
Abs(path) == IF path[1] = "/" THEN Clean(path) ELSE Clean(WorkingDirectory \o path)

\* filepath.Dir: all but the last component, "." when there is only one
Dir(path) == IF Len(path) = 1 THEN <<".">> ELSE SubSeq(path, 1, Len(path) - 1)

\* What a path holds: perm is the owner's bits of Mode().Perm(), access is
\* what the process itself may do, zip tells a file with the content of an archive
Absent == [kind |-> "absent", perm |-> {}, access |-> {}, zip |-> FALSE]

Directories == [kind : {"dir"}, perm : SUBSET {"w"}, access : SUBSET {"w"}, zip : {FALSE}]

Nodes ==
    {Absent, [Absent EXCEPT !.kind = "inaccessible"]}
        \cup Directories
        \cup [kind : {"file"}, perm : SUBSET {"r"}, access : SUBSET {"r"}, zip : BOOLEAN]

FileSystems ==
    { [p \in {WorkingDirectory, WorkingDirectory \o <<"in.zip">>, WorkingDirectory \o <<"d">>}
          |-> IF p = WorkingDirectory THEN w
              ELSE IF p = WorkingDirectory \o <<"d">> THEN d ELSE f] :
        w \in Directories, f \in Nodes, d \in Nodes }

\* os.Stat(path): what the file system holds there
Stat(path) == IF Abs(path) \in DOMAIN fileSystem THEN fileSystem[Abs(path)] ELSE Absent

readPermissionBit == "r"

writePermissionBit == "w"

\* zip.OpenReader(path) succeeds on a file the process can read that holds an archive
OpenReader(path) ==
    LET node == Stat(path) IN node.kind = "file" /\ "r" \in node.access /\ node.zip

\* Parse returns to main
ParseReturns(config, err) ==
    /\ cliOptions' = config
    /\ parseErr' = err
    /\ pc' = "afterParse"

\* Parse: the number of arguments and the optional flag
ParseArguments ==
    /\ pc = "Parse"
    /\ IF Len(arguments) < 3 \/ Len(arguments) > 4
       THEN ParseReturns(NilConfig, Failure("usage"))
       ELSE IF Len(arguments) = 4 /\ arguments[4] # validateFlag
       THEN ParseReturns(NilConfig, Failure("unknown-option"))
       ELSE /\ cliOptions' = [nil |-> FALSE, InputZipPath |-> arguments[2],
                              OutputZipPath |-> arguments[3],
                              Validate |-> Len(arguments) = 4]
            /\ pc' = "validateInputFile"
            /\ UNCHANGED parseErr
    /\ UNCHANGED <<previous, pathVars, arguments, fileSystem, repackageVars, validateVars, Validate,
                   pendingNames, outputFile, open, ioFault>>

\* validateInputFile; the reader it opens is not closed
ValidateInputFile ==
    /\ pc = "validateInputFile"
    /\ LET inputFileInfo == Stat(cliOptions.InputZipPath)
       IN  IF inputFileInfo.kind = "absent"
           THEN ParseReturns(NilConfig, Failure("input-missing")) /\ UNCHANGED open
           ELSE IF inputFileInfo.kind = "inaccessible"
           THEN ParseReturns(NilConfig, Failure("input-stat")) /\ UNCHANGED open
           ELSE IF inputFileInfo.kind = "dir"
           THEN ParseReturns(NilConfig, Failure("input-is-directory")) /\ UNCHANGED open
           ELSE IF readPermissionBit \notin inputFileInfo.perm
           THEN ParseReturns(NilConfig, Failure("input-not-readable")) /\ UNCHANGED open
           ELSE IF ~OpenReader(cliOptions.InputZipPath)
           THEN ParseReturns(NilConfig, Failure("input-not-zip")) /\ UNCHANGED open
           ELSE /\ open' = open \cup {"inputZipReader"}
                /\ pc' = "validateOutputDirectory"
                /\ UNCHANGED <<cliOptions, parseErr>>
    /\ UNCHANGED <<previous, pathVars, arguments, fileSystem, repackageVars, validateVars, Validate,
                   pendingNames, outputFile, ioFault>>

\* validateOutputDirectory
ValidateOutputDirectory ==
    /\ pc = "validateOutputDirectory"
    /\ LET outputDirectoryInfo == Stat(Dir(cliOptions.OutputZipPath))
       IN  IF outputDirectoryInfo.kind = "absent"
           THEN ParseReturns(NilConfig, Failure("output-directory-missing"))
           ELSE IF outputDirectoryInfo.kind = "inaccessible"
           THEN ParseReturns(NilConfig, Failure("output-directory-stat"))
           ELSE IF outputDirectoryInfo.kind # "dir"
           THEN ParseReturns(NilConfig, Failure("output-directory-not-a-directory"))
           ELSE IF writePermissionBit \notin outputDirectoryInfo.perm
           THEN ParseReturns(NilConfig, Failure("output-directory-not-writable"))
           ELSE /\ pc' = "validateDistinctPaths"
                /\ UNCHANGED <<cliOptions, parseErr>>
    /\ UNCHANGED <<previous, pathVars, arguments, fileSystem, repackageVars, validateVars, Validate,
                   pendingNames, outputFile, open, ioFault>>

\* validateDistinctPaths, and the return of the Config when the paths differ
ValidateDistinctPaths ==
    /\ pc = "validateDistinctPaths"
    /\ \/ /\ IF Abs(cliOptions.InputZipPath) = Abs(cliOptions.OutputZipPath)
             THEN ParseReturns(NilConfig, Failure("same-file"))
             ELSE ParseReturns(cliOptions, NoError)
          /\ UNCHANGED ioFault
       \/ /\ ParseReturns(NilConfig, Failure("absolute-path"))
          /\ ioFault' = TRUE
    /\ UNCHANGED <<previous, pathVars, arguments, fileSystem, repackageVars, validateVars, Validate,
                   pendingNames, outputFile, open>>

\* main after args.Parse has returned
MainAfterParse ==
    /\ pc = "afterParse"
    /\ IF parseErr.kind # "none"
       THEN /\ outcome' = Exit(1, "Arguments Error")
            /\ pc' = "exit"
            /\ UNCHANGED Validate
       ELSE /\ Validate' = cliOptions.Validate
            /\ pc' = "parsed"
            /\ UNCHANGED outcome
    /\ UNCHANGED <<previous, pathVars, argsVars, repackageVars, pendingNames, outputFile, open,
                   ioFault, expectedFiles, actualFiles, results, allMatch, valRet, valErr,
                   reportFile, reportBefore>>

InitParse ==
    /\ arguments \in ArgumentLists
    /\ fileSystem \in FileSystems
    /\ cliOptions = NilConfig
    /\ parseErr = NoError
    /\ files = <<>>
    /\ Validate = FALSE
    /\ outputFile = NoOutput
    /\ outputBefore = outputFile
    /\ reportFile = NoFile
    /\ reportBefore = reportFile
    /\ expectedFiles = EmptyMap
    /\ pc = "Parse"
    /\ Idle

NextParse ==
    \/ ParseArguments
    \/ ValidateInputFile
    \/ ValidateOutputDirectory
    \/ ValidateDistinctPaths
    \/ MainAfterParse

SpecParse == InitParse /\ [][NextParse]_vars

----------------------------------------------------------------------------
(* What the claims speak of, stated on the input itself *)

FlatName(f) == f.Name[Len(f.Name)]

Skippable(f) ==
    \/ f.kind \in {"dir", "symlink"}
    \/ FlatName(f) \in {".DS_Store", "Thumbs.db"}
    \/ \E i \in 1..Len(f.Name) : f.Name[i] = "__MACOSX"

Kept == { i \in DOMAIN files : ~Skippable(files[i]) }

KeptNamed(n) == { i \in Kept : FlatName(files[i]) = n }

FlatNames == { FlatName(files[i]) : i \in Kept }

Min(S) == CHOOSE i \in S : \A j \in S : i <= j

AllSame(S) == \A i, j \in S : files[i].content = files[j].content

\* the entries the pass has gone over without returning an error
Processed == IF pc = "Run" THEN {} ELSE 1..(idx - 1)

FlattenSucceeded ==
    \/ pc = "dedup" /\ idx > Len(files)
    \/ pc \notin {"Run", "dedup"} /\ runErr.kind \notin {"open", "conflict", "compare"}

RunSucceeded == pc \notin {"Run", "dedup", "write"} /\ runErr.kind = "none"

MembersNamed(n) == { i \in DOMAIN outputFile.members : outputFile.members[i].Name = n }

----------------------------------------------------------------------------
(* C1: once flattenAndDeduplicate has succeeded, the survivor of every       *)
(* flattened name is a kept entry of that name of the largest size among the *)
(* kept entries of that name; once Run has succeeded, the registry holds for *)
(* that name the full path of exactly that survivor.                         *)
C1_LargestSurvives ==
    /\ FlattenSucceeded =>
         /\ DOMAIN deduplicatedFiles = FlatNames
         /\ \A n \in FlatNames :
              /\ deduplicatedFiles[n] \in KeptNamed(n)
              /\ \A i \in KeptNamed(n) :
                   Len(files[i].content) <= Len(files[deduplicatedFiles[n]].content)
    /\ RunSucceeded =>
         /\ DOMAIN fileMetadata = FlatNames
         /\ \A n \in FlatNames :
              fileMetadata[n].OriginalPath = files[deduplicatedFiles[n]].Name

C1_Witness ==
    /\ RunSucceeded
    /\ \E i, j \in KeptNamed("x") :
         /\ i < j
         /\ Len(files[j].content) < Len(files[i].content)
         /\ fileMetadata["x"].OriginalPath = files[i].Name
         /\ files[i].Name # files[j].Name

(* C2: whenever two kept entries have the same flattened name, the same size *)
(* and different contents, the repackaging fails with a conflict error,      *)
(* whatever their positions and whatever other entries are present.          *)
ConflictingPair ==
    \E i, j \in Kept :
        /\ FlatName(files[i]) = FlatName(files[j])
        /\ Len(files[i].content) = Len(files[j].content)
        /\ files[i].content # files[j].content

C2_EveryConflictingPairFails ==
    (ConflictingPair /\ pc \notin {"Run", "dedup"} /\ ~ioFault) => runErr.kind = "conflict"

(* C3: when Run fails because the input cannot be opened or because of a     *)
(* conflict, the file at the output path is what it was before the call.     *)
C3_NoOutputOnEarlyFailure ==
    runErr.kind \in {"open", "conflict"} => outputFile = outputBefore

C3_Witness ==
    /\ pc = "main"
    /\ runErr.kind = "conflict"
    /\ outputBefore = OldOutput
    /\ outputFile = OldOutput

(* C4: an entry of the same flattened name, size and content as the          *)
(* incumbent raises no error and leaves the incumbent in place: among        *)
(* content-identical entries of one name the earliest survives, no conflict  *)
(* is reported for them, and the output holds exactly one member for them,   *)
(* whose source is the earliest.                                             *)
C4_DuplicatesMerge ==
    /\ \A n \in FlatNames :
         LET seen == KeptNamed(n) \cap Processed
         IN  (seen # {} /\ AllSame(seen)) =>
                 /\ n \in DOMAIN deduplicatedFiles
                 /\ deduplicatedFiles[n] = Min(seen)
    /\ runErr.kind = "conflict" => ~AllSame(KeptNamed(runErr.name) \cap 1..idx)
    /\ RunSucceeded =>
         \A n \in FlatNames :
            AllSame(KeptNamed(n)) =>
                /\ Cardinality(MembersNamed(n)) = 1
                /\ fileMetadata[n].OriginalPath = files[Min(KeptNamed(n))].Name

C4_Witness ==
    /\ RunSucceeded
    /\ Cardinality(KeptNamed("x")) = 3
    /\ AllSame(KeptNamed("x"))
    /\ files[1].Name # files[2].Name
    /\ deduplicatedFiles["x"] = 1
    /\ Cardinality(MembersNamed("x")) = 1

(* C5: no directory, symbolic link, .DS_Store, Thumbs.db or entry under a    *)
(* __MACOSX component is ever the source of an entry of the candidate set or *)
(* of the registry.                                                          *)
C5_SkippedNeverSurvive ==
    /\ \A n \in DOMAIN deduplicatedFiles : ~Skippable(files[deduplicatedFiles[n]])
    /\ \A registry \in {outputFileRegistry, fileMetadata} :
         \A n \in DOMAIN registry :
            /\ n \in DOMAIN deduplicatedFiles
            /\ registry[n].OriginalPath = files[deduplicatedFiles[n]].Name
            /\ \A i \in DOMAIN files :
                 Skippable(files[i]) => registry[n].OriginalPath # files[i].Name

C5_Witness ==
    /\ RunSucceeded
    /\ Len(files) = 3
    /\ Skippable(files[1])
    /\ ~Skippable(files[2])
    /\ Skippable(files[3])
    /\ files[1].kind # files[3].kind
    /\ DOMAIN fileMetadata = {FlatName(files[2])}

----------------------------------------------------------------------------
(* What the claims about validate.Run speak of, stated on the archive *)

Validated == pc \in {"afterValidate", "exit"} /\ Validate /\ runErr.kind = "none"

Max(S) == CHOOSE i \in S : \A j \in S : j <= i

\* the content a reader of the archive finds under the name n
ContentNamed(n) == outputFile.members[Max(MembersNamed(n))].content

Missing == { n \in DOMAIN expectedFiles : MembersNamed(n) = {} }

Mismatched ==
    { n \in (DOMAIN expectedFiles) \ Missing :
        expectedFiles[n].Hash # HashOf(ContentNamed(n)) }

ReportNames(matching) ==
    { reportFile.content[i].file_name :
        i \in { j \in DOMAIN reportFile.content : reportFile.content[j].match = matching } }

(* C6: after a successful repackage.Run, validate.Run on the produced archive *)
(* with the returned registry never reports a missing entry; when it returns  *)
(* no error it returns true with every record matching; and unless an         *)
(* operation of the file system failed it returns no error.                   *)
C6_RoundTrip ==
    /\ valErr.kind # "missing"
    /\ (Validated /\ valErr.kind = "none") =>
         /\ valRet = TRUE
         /\ \A i \in DOMAIN results : results[i].Match
         /\ reportFile.state = "complete"
         /\ ReportNames(TRUE) = DOMAIN fileMetadata
         /\ ReportNames(FALSE) = {}
    /\ (Validated /\ ~ioFault) => valErr.kind = "none"

C6_Witness ==
    /\ pc = "afterValidate"
    /\ ~ioFault
    /\ Len(files) = 3
    /\ Len(results) = 2
    /\ valRet = TRUE
    /\ reportFile.state = "complete"

(* C7: if the expected registry holds a name that is no member of the        *)
(* archive, validate.Run returns an error and false and no results, and the  *)
(* report file is neither created nor written; unless an operation of the    *)
(* file system failed first, the error names a missing file.                 *)
C7_MissingEntryFails ==
    (outputFile.state = "archive" /\ Missing # {}) =>
        /\ reportFile = reportBefore
        /\ pc = "afterValidate" =>
             /\ valErr.kind # "none"
             /\ valRet = FALSE
             /\ results = <<>>
             /\ ~ioFault => (valErr.kind = "missing" /\ valErr.name \in Missing)

C7_Witness ==
    /\ pc = "afterValidate"
    /\ valErr.kind = "missing"
    /\ valErr.name \in Missing
    /\ \E n \in (DOMAIN expectedFiles) \ Missing : n \notin Mismatched
    /\ reportFile = NoFile

C9_OneRecordPerName ==
    (pc = "afterValidate" /\ valErr.kind = "none") =>
        /\ reportFile.state = "complete"
        /\ Len(reportFile.content) = Cardinality(DOMAIN expectedFiles)
        /\ ReportNames(TRUE) \cup ReportNames(FALSE) = DOMAIN expectedFiles
        /\ valRet = (\A i \in DOMAIN reportFile.content : reportFile.content[i].match)

C9_Witness ==
    /\ pc = "afterValidate"
    /\ valErr.kind = "none"
    /\ Len(reportFile.content) = 2
    /\ ~reportFile.content[1].match
    /\ reportFile.content[2].match
    /\ valRet = FALSE

(* C10: validate.Run returns no error only with the complete report written, *)
(* and whenever it returns an error, a failure to create or to write the     *)
(* report included, it returns false, even when every hash matched.          *)
C10_ReportFailureIsAnError ==
    pc = "afterValidate" =>
        /\ valErr.kind = "none" =>
             /\ reportFile.state = "complete"
             /\ Len(reportFile.content) = Len(results)
             /\ Len(results) = Cardinality(DOMAIN expectedFiles)
        /\ valErr.kind # "none" => valRet = FALSE
        /\ reportFile.state \in {"empty", "partial"} =>
             valErr.kind \in {"report-create", "report-write"}

C10_Witness ==
    /\ pc = "afterValidate"
    /\ valErr.kind = "report-write"
    /\ valRet = FALSE
    /\ allMatch = TRUE
    /\ Len(results) = 2
    /\ reportFile.state = "partial"

----------------------------------------------------------------------------
\* the members of an archive as a set of name and content pairs
NamedContents(archive) ==
    { <<archive.members[i].Name, archive.members[i].content>> : i \in DOMAIN archive.members }

RerunReturned == previous.calls = 1 /\ pc \notin {"Run", "dedup", "write"}

\* C11: Run on the archive a successful Run produced meets no conflict and
\* hashes nothing while deduplicating, and, when no operation of the file
\* system fails, succeeds with an archive of the same member names, each with
\* the same content and as many members, and with a registry of the same
\* names and hashes as the first.
C11_RerunIdempotent ==
    /\ previous.calls = 1 => runErr.kind \notin {"conflict", "compare"} /\ hashed = {}
    /\ RerunReturned /\ ~ioFault =>
          /\ runErr.kind = "none"
          /\ outputFile.state = "archive"
          /\ NamedContents(outputFile) = NamedContents(previous.output)
          /\ Len(outputFile.members) = Len(previous.output.members)
          /\ DOMAIN fileMetadata = DOMAIN previous.registry
          /\ \A n \in DOMAIN fileMetadata : fileMetadata[n].Hash = previous.registry[n].Hash

\* the second run has ended with the two members the first run flattened
\* out of nested paths
C11_Witness ==
    /\ RerunReturned
    /\ pc = "exit"
    /\ runErr.kind = "none"
    /\ Len(outputFile.members) = 2
    /\ \E n \in DOMAIN previous.registry : Len(previous.registry[n].OriginalPath) = 2
    /\ outputFile.state = "archive"

----------------------------------------------------------------------------
\* C12: after createOutputZip has returned without error, whatever the output
\* path held before, the registry, the candidate set and the members written
\* have the same names, one member per name; each member is stored
\* uncompressed with the whole content of its candidate entry, and the
\* registry holds that entry's original path and the hash of that content;
\* when no operation of the file system failed the output is an archive.
C12_OutputMatchesCandidates ==
    RunSucceeded =>
        /\ DOMAIN fileMetadata = DOMAIN deduplicatedFiles
        /\ { outputFile.members[i].Name : i \in DOMAIN outputFile.members }
               = DOMAIN deduplicatedFiles
        /\ Len(outputFile.members) = Cardinality(DOMAIN deduplicatedFiles)
        /\ \A i \in DOMAIN outputFile.members :
              LET member == outputFile.members[i]
                  zipEntry == files[deduplicatedFiles[member.Name]]
              IN  /\ member.Method = "Store"
                  /\ member.content = zipEntry.content
                  /\ fileMetadata[member.Name] =
                        [OriginalPath |-> zipEntry.Name, Hash |-> HashOf(zipEntry.content)]
        /\ ~ioFault => outputFile.state = "archive"

\* two candidates have been written over a file that was there before
C12_Witness ==
    /\ RunSucceeded
    /\ outputBefore = OldOutput
    /\ outputFile.state = "archive"
    /\ Cardinality(DOMAIN deduplicatedFiles) = 2
    /\ \E n \in DOMAIN fileMetadata : Len(fileMetadata[n].OriginalPath) = 2

----------------------------------------------------------------------------
\* the non-skipped entries the loop of flattenAndDeduplicate has reached
Met == { i \in Kept : pc # "Run" /\ i <= idx }

\* C13: flattenAndDeduplicate hashes an entry only together with another
\* non-skipped entry of the same flattened name and the same size; nothing is
\* hashed while no two entries reached so far share a flattened name and a
\* size, and a skipped entry is never hashed.
C13_HashOnlyOnTie ==
    /\ \A i \in hashed :
          /\ i \in Met
          /\ \E j \in hashed \ {i} :
                /\ j \in Met
                /\ FlatName(files[j]) = FlatName(files[i])
                /\ Size(files[j]) = Size(files[i])
    /\ (\A i, j \in Met :
            i # j /\ FlatName(files[i]) = FlatName(files[j])
                => Size(files[i]) # Size(files[j]))
          => hashed = {}

\* of three entries of one flattened name the two of equal size have been
\* hashed and the third, of another size, has not
C13_Witness ==
    /\ FlattenSucceeded
    /\ Cardinality(hashed) = 2
    /\ \E i \in Kept \ hashed :
          \E j \in hashed : FlatName(files[i]) = FlatName(files[j])

----------------------------------------------------------------------------
\* C14: a second validation of the same archive against the same registry,
\* with no failure of the file system, ends as the first did: with the same
\* error, naming the same missing name, or with the same report, its records
\* in the same order.
C14_SameOrderEveryTime ==
    pc = "afterValidate" /\ previous.calls = 1 /\ ~ioFault =>
        /\ valErr = previous.err
        /\ reportFile = previous.report

----------------------------------------------------------------------------
\* C15: when repackage.Run has returned, by whichever path, the reader of the
\* input archive, the output file and the archive writer are closed; while
\* validate.Run runs only its own reader and report file are open, and when
\* it has returned, by whichever path, they are closed as well.
C15_HandlesReleased ==
    /\ pc \in {"main", "afterValidate", "exit"} => open = {}
    /\ pc \in {"readOutputZip", "validateFileHashes", "writeReport"}
          => open \subseteq {"zipReader", "reportFile"}
    /\ pc = "main" /\ runErr.kind = "none" => outputFile.state \in {"archive", "broken"}

\* both calls have returned, the second with an error after it had opened
\* the archive and created the report
C15_Witness ==
    /\ pc = "afterValidate"
    /\ runErr.kind = "none"
    /\ valErr.kind = "report-write"
    /\ open = {}
    /\ Len(outputFile.members) = 2

----------------------------------------------------------------------------
\* C16: when validate.Run has returned an error, the report path does not
\* hold an empty or partly written report: it holds what it held when
\* validate.Run was called.
C16_NoReportLeftOnError ==
    pc = "afterValidate" /\ valErr.kind # "none" =>
        /\ reportFile.state \notin {"empty", "partial"}
        /\ reportFile = reportBefore

----------------------------------------------------------------------------
\* C18: when validate.Run has returned an error, main ends with a failure
\* status and reports a Validation error, as it does for an error of Run.
C18_ValidationErrorIsReported ==
    /\ pc = "exit" /\ runErr.kind # "none" =>
          outcome = Exit(1, "Repackaging Error")
    /\ pc = "exit" /\ runErr.kind = "none" /\ Validate /\ valErr.kind # "none" =>
          outcome = Exit(1, "Validation Error")

----------------------------------------------------------------------------
RunReturned == pc \notin {"Run", "dedup", "write"}

\* C19: when the input has no entries, or only entries that are skipped, the
\* candidate set stays empty, nothing is compared and no conflict arises; Run
\* can only fail to open the input or to create the output, and when it
\* succeeds the registry is empty and the output archive has no members.
C19_NothingKeptGivesEmptyArchive ==
    Kept = {} =>
        /\ deduplicatedFiles = EmptyMap
        /\ hashed = {}
        /\ runErr.kind \in {"none", "open", "create"}
        /\ RunReturned /\ runErr.kind = "none" =>
              /\ fileMetadata = EmptyMap
              /\ outputFile.members = <<>>
              /\ outputFile.state = "archive" \/ (ioFault /\ outputFile.state = "broken")

\* Run has succeeded on three entries, a directory and a symbolic link among
\* them, all skipped, over a file that was there before
C19_Witness ==
    /\ Len(files) = 3
    /\ Kept = {}
    /\ \E i, j \in DOMAIN files : IsDir(files[i]) /\ isSymlink(files[j])
    /\ RunSucceeded
    /\ outputBefore = OldOutput
    /\ outputFile = [state |-> "archive", members |-> <<>>]

----------------------------------------------------------------------------
\* the working set holds, for each flattened name of the processed prefix,
\* a non-skipped entry of the prefix of that name and of the largest size
SurvivorsAreLargest ==
    /\ DOMAIN deduplicatedFiles = { FlatName(files[i]) : i \in Kept \cap Processed }
    /\ \A k \in DOMAIN deduplicatedFiles :
          /\ deduplicatedFiles[k] \in KeptNamed(k) \cap Processed
          /\ \A i \in KeptNamed(k) \cap Processed :
                Size(files[i]) <= Size(files[deduplicatedFiles[k]])

\* a key stays a key, and its survivor changes only to a strictly larger entry
SurvivorsOnlyGrow ==
    \A k \in DOMAIN deduplicatedFiles :
        /\ k \in DOMAIN deduplicatedFiles'
        /\ Size(files[deduplicatedFiles'[k]]) >= Size(files[deduplicatedFiles[k]])
        /\ deduplicatedFiles'[k] # deduplicatedFiles[k]
              => Size(files[deduplicatedFiles'[k]]) > Size(files[deduplicatedFiles[k]])

\* C20: after any prefix of the input has been processed, every key of the
\* working set maps to a non-skipped entry of that prefix whose final path
\* component is the key and whose size is at least that of every non-skipped
\* entry of the prefix with that final component; in every step the size of
\* a survivor does not decrease and a survivor is replaced only by a
\* strictly larger entry.
C20_SurvivorIsLargestOfPrefix == []SurvivorsAreLargest /\ [][SurvivorsOnlyGrow]_vars

\* the first of three entries of one name has been replaced by the larger
\* second one, and the smaller third one has been left out
C20_Witness ==
    /\ FlattenSucceeded
    /\ \E k \in DOMAIN deduplicatedFiles :
          /\ deduplicatedFiles[k] = 2
          /\ KeptNamed(k) = {1, 2, 3}
          /\ Size(files[3]) < Size(files[2])

----------------------------------------------------------------------------
ParseReturned == pc \in {"afterParse", "parsed", "exit"}

\* the input is a regular file the process can read that holds an archive,
\* the parent of the output is a directory the process can write to, and
\* the two paths have different absolute paths
PathsAreValid ==
    /\ Len(arguments) >= 3
    /\ LET input == Stat(arguments[2])
           parent == Stat(Dir(arguments[3]))
       IN  /\ input.kind = "file"
           /\ "r" \in input.access
           /\ input.zip
           /\ parent.kind = "dir"
           /\ "w" \in parent.access
           /\ Abs(arguments[2]) # Abs(arguments[3])

\* C17: args.Parse returns either a Config and no error or an error and no
\* Config; it returns a Config only if the input path exists, is a regular
\* readable file and holds a ZIP archive, the parent directory of the output
\* path exists and is writable, and the two paths have different absolute
\* paths.
C17_ConfigOnlyForValidPaths ==
    ParseReturned =>
        /\ cliOptions.nil <=> parseErr.kind # "none"
        /\ ~cliOptions.nil => PathsAreValid

----------------------------------------------------------------------------
\* C21: flattenAndDeduplicate on the same entries in another order ends as it
\* did in the first order: with a conflict if the first ended with a
\* conflict, and otherwise with the same flattened names, each with a
\* survivor of the same size and content.
C21_OrderDoesNotMatter ==
    previous.calls = 1 =>
        /\ runErr.kind = "conflict" => previous.err.kind = "conflict"
        /\ FlattenSucceeded =>
              /\ previous.err.kind = "none"
              /\ DOMAIN deduplicatedFiles = DOMAIN previous.survivors
              /\ \A k \in DOMAIN deduplicatedFiles :
                    Survivors[k].content = previous.survivors[k].content

----------------------------------------------------------------------------
(* repackage.Run called a second time on the input without its skipped entries *)

\* entries that are a directory, a symbolic link or a metadata file
SkippedEntries == { i \in DOMAIN files : Skippable(files[i]) }

\* the same entries without the skipped ones
RunWithoutSkipped ==
    /\ SkippedEntries # {}
    /\ RunAgain(SelectSeq(files, LAMBDA f : ~Skippable(f)))

NextWithoutSkipped == NextRun \/ RunWithoutSkipped

SpecWithoutSkipped == InitRun /\ [][NextWithoutSkipped]_vars

FlattenEnded == FlattenSucceeded \/ runErr.kind = "conflict"

HashedEntries == { files[i] : i \in hashed }

\* C22: on the input without its directories, symbolic links and metadata
\* files flattenAndDeduplicate ends as it did with them: with the same
\* conflict error or the same candidate set, and having hashed the same
\* entries, none of them a skipped one.
C22_SkippedEntriesChangeNothing ==
    previous.calls = 1 =>
        /\ runErr.kind = "conflict" => previous.err = runErr
        /\ FlattenSucceeded => previous.err.kind = "none" /\ Survivors = previous.survivors
        /\ HashedEntries \subseteq previous.hashed
        /\ FlattenEnded => HashedEntries = previous.hashed
        /\ \A f \in previous.hashed : ~Skippable(f)

\* the two entries left after a skipped one was taken away conflict, as they
\* did with it
C22_Witness ==
    /\ previous.calls = 1
    /\ Len(files) = 2
    /\ runErr.kind = "conflict"
    /\ previous.err.kind = "conflict"

----------------------------------------------------------------------------
Validating == pc \in {"readOutputZip", "validateFileHashes", "writeReport", "afterValidate"}

\* C23: the output file is created, and held open, only once the pass over
\* the input has gone through all entries without error; validate.Run runs,
\* and leaves a result or a report, only when the flag is set and Run has
\* succeeded; and while it runs the archive writer has been closed and the
\* output file is no longer open, so the reader it opens reads a file on
\* which Close has been called.
C23_PhasesInOrder ==
    /\ (outputFile # outputBefore \/ open \cap {"outputFile", "zipWriter"} # {}) =>
          /\ pc \notin {"Run", "dedup"}
          /\ idx > Len(files)
          /\ runErr.kind \notin {"open", "conflict", "compare", "create"}
    /\ (Validating \/ valErr.kind # "none" \/ reportFile # NoFile \/ results # <<>>) =>
          /\ Validate
          /\ runErr.kind = "none"
          /\ pc \notin {"Run", "dedup", "write", "main"}
    /\ Validating =>
          /\ outputFile.state \in {"archive", "broken"}
          /\ open \cap {"outputFile", "zipWriter", "reader"} = {}
    /\ "zipReader" \in open => outputFile.state = "archive"

\* the validator is reading the archive of two members that Run has closed
C23_Witness ==
    /\ pc = "validateFileHashes"
    /\ "zipReader" \in open
    /\ Len(outputFile.members) = 2
    /\ Len(results) = 1

----------------------------------------------------------------------------
\* the names createOutputZip has written
WrittenNames == { outputFile.members[i].Name : i \in DOMAIN outputFile.members }

\* C24: when writing or hashing a candidate entry has failed, Run has
\* returned the error, naming that entry, and no registry; the entry is a
\* candidate that was not written, nothing was written after it, and the
\* registry of the entries written before it is not returned.
C24_WriteFailureReturnsNoRegistry ==
    runErr.kind = "write" =>
        /\ pc \notin {"Run", "dedup", "write"}
        /\ fileMetadata = EmptyMap
        /\ runErr.name \in DOMAIN deduplicatedFiles \ WrittenNames
        /\ runErr.name \in pendingNames
        /\ WrittenNames = DOMAIN deduplicatedFiles \ pendingNames
        /\ DOMAIN outputFileRegistry = WrittenNames

\* the second of two candidates has failed after the first was written and
\* registered
C24_Witness ==
    /\ runErr.kind = "write"
    /\ Cardinality(DOMAIN deduplicatedFiles) = 2
    /\ Len(outputFile.members) = 1
    /\ outputFileRegistry # EmptyMap
    /\ fileMetadata = EmptyMap

----------------------------------------------------------------------------
\* C25: after createOutputZip has failed on an entry, the output path does
\* not hold a finalized archive that a reader can open.
C25_NoArchiveAfterWriteFailure ==
    runErr.kind = "write" => outputFile.state # "archive"

----------------------------------------------------------------------------
\* C26: Run returns success, with a registry, only if the archive writer and
\* the output file were closed without a failure, the output then being a
\* finalized archive.
C26_SuccessMeansFinalized ==
    RunSucceeded => outputFile.state = "archive"

----------------------------------------------------------------------------
\* C27: the conflict error names the flattened name and two paths: the first
\* is the path of the survivor of that name when the conflict was met, the
\* second the path of the entry being processed; the two are different
\* entries, neither of them skipped, of that flattened name, of equal size
\* and of different hashes.
C27_ConflictErrorNamesBoth ==
    runErr.kind = "conflict" =>
        /\ idx \in Kept
        /\ runErr.name = FlatName(files[idx])
        /\ runErr.name \in DOMAIN deduplicatedFiles
        /\ LET incumbent == deduplicatedFiles[runErr.name]
           IN  /\ incumbent \in Kept
               /\ incumbent < idx
               /\ FlatName(files[incumbent]) = runErr.name
               /\ runErr.paths = <<files[incumbent].Name, files[idx].Name>>
               /\ Len(files[incumbent].content) = Len(files[idx].content)
               /\ HashOf(files[incumbent].content) # HashOf(files[idx].content)

\* the third entry conflicts with the first, which has survived the second,
\* a duplicate of it under another path that the error does not name
C27_Witness ==
    /\ runErr.kind = "conflict"
    /\ idx = 3
    /\ deduplicatedFiles[runErr.name] = 1
    /\ KeptNamed(runErr.name) = {1, 2, 3}
    /\ files[2].Name \notin {runErr.paths[1], runErr.paths[2]}

----------------------------------------------------------------------------
(* validate.Run called a second time on the archive without its extra members *)

\* the members whose names the registry does not hold
ExtraMembers ==
    { i \in DOMAIN outputFile.members : outputFile.members[i].Name \notin DOMAIN expectedFiles }

\* after a first call in which no operation of the file system failed, the
\* same registry is validated against the same archive without its extra
\* members, the report path being what it was before the first call
ValidateWithoutExtras ==
    /\ pc = "afterValidate"
    /\ previous.calls = 0
    /\ ~ioFault
    /\ ExtraMembers # {}
    /\ previous' = [NoPrevious EXCEPT !.calls = 1, !.report = reportFile, !.err = valErr,
                                      !.ret = valRet, !.output = outputFile]
    /\ outputFile' = [outputFile EXCEPT
                         !.members = SelectSeq(@, LAMBDA m : m.Name \in DOMAIN expectedFiles)]
    /\ reportFile' = reportBefore
    /\ actualFiles' = EmptyMap
    /\ results' = <<>>
    /\ allMatch' = FALSE
    /\ valRet' = FALSE
    /\ valErr' = NoError
    /\ pc' = "readOutputZip"
    /\ UNCHANGED <<pathVars, argsVars, repackageVars, Validate, pendingNames, open, ioFault,
                   expectedFiles, reportBefore, outcome>>

NextWithoutExtras == NextValidate \/ ValidateWithoutExtras

SpecWithoutExtras == InitValidate /\ [][NextWithoutExtras]_vars

Records(file) == { file.content[i] : i \in DOMAIN file.content }

\* C28: an archive validates with its extra members as it does without
\* them: when no operation of the file system fails, both validations end
\* with the same kind of error, a missing-file error naming a name of the
\* registry, or with the same returned value and reports of the same
\* records, none of them for an extra member.
C28_ExtraMembersChangeNothing ==
    previous.calls = 1 /\ pc = "afterValidate" /\ ~ioFault =>
        /\ valErr.kind = previous.err.kind
        /\ valErr.kind \in {"none", "missing"}
        /\ valErr.kind = "missing" =>
              {valErr.name, previous.err.name} \subseteq DOMAIN expectedFiles
        /\ valRet = previous.ret
        /\ reportFile.state = previous.report.state
        /\ Len(reportFile.content) = Len(previous.report.content)
        /\ Records(reportFile) = Records(previous.report)
        /\ \A r \in Records(previous.report) : r.file_name \in DOMAIN expectedFiles

\* an archive with an expected and an extra member has validated as the
\* archive with the expected member alone does
C28_Witness ==
    /\ previous.calls = 1
    /\ pc = "afterValidate"
    /\ Len(previous.output.members) = 2
    /\ Len(outputFile.members) = 1
    /\ valErr.kind = "none"
    /\ valRet
    /\ previous.ret
    /\ Len(reportFile.content) = 1

----------------------------------------------------------------------------
(* writeValidationReport: the path of the report, computed on characters *)

MaxPath == 3

PathChars == {"/", ".", "a"}

\* "_validation.json"
ReportSuffix ==
    <<"_", "v", "a", "l", "i", "d", "a", "t", "i", "o", "n", ".", "j", "s", "o", "n">>

\* how the name of an archive may end
Tails ==
    {<<>>, <<".", "z", "i", "p">>, <<".", "j", "s", "o", "n">>,
     <<"_", "v", "a", "l", "i", "d", "a", "t", "i", "o", "n">>, ReportSuffix}

ArchivePaths == { stem \o tail : stem \in SeqsUpTo(PathChars, MaxPath), tail \in Tails }

Slashes(path) == { i \in 1..Len(path) : path[i] = "/" }

\* filepath.Ext: the suffix from the last dot of the last element, or ""
filepathExt(path) ==
    LET dots == { i \in 1..Len(path) :
                    path[i] = "." /\ \A j \in i..Len(path) : path[j] # "/" }
    IN  IF dots = {} THEN <<>> ELSE SubSeq(path, Max(dots), Len(path))

\* filepath.Base: the last element, trailing separators removed
filepathBase(path) ==
    LET others == (1..Len(path)) \ Slashes(path)
    IN  IF path = <<>> THEN <<".">>
        ELSE IF others = {} THEN <<"/">>
        ELSE LET last == Max(others)
                 before == { i \in Slashes(path) : i < last }
                 first == IF before = {} THEN 1 ELSE Max(before) + 1
             IN  SubSeq(path, first, last)

HasSuffix(s, suffix) ==
    /\ Len(s) >= Len(suffix)
    /\ SubSeq(s, Len(s) - Len(suffix) + 1, Len(s)) = suffix

\* strings.TrimSuffix
TrimSuffix(s, suffix) ==
    IF HasSuffix(s, suffix) THEN SubSeq(s, 1, Len(s) - Len(suffix)) ELSE s

\* the elements of a path: its maximal runs without a separator
RECURSIVE Elements(_)
Elements(path) ==
    IF path = <<>> THEN <<>>
    ELSE LET cut == IF Slashes(path) = {} THEN Len(path) + 1
                    ELSE CHOOSE i \in Slashes(path) : \A j \in Slashes(path) : i <= j
             head == SubSeq(path, 1, cut - 1)
             rest == IF cut >= Len(path) THEN <<>> ELSE SubSeq(path, cut + 1, Len(path))
         IN  IF head = <<>> THEN Elements(rest) ELSE <<head>> \o Elements(rest)

\* filepath.Clean on elements: "." is dropped, ".." removes the element
\* before it, is dropped at the root and is kept at the start otherwise
RECURSIVE CleanElements(_, _, _)
CleanElements(elements, out, rooted) ==
    IF elements = <<>> THEN out
    ELSE LET e == Head(elements)
             kept == IF e = <<".">> THEN out
                     ELSE IF e = <<".", ".">>
                          THEN IF out # <<>> /\ out[Len(out)] # <<".", ".">>
                               THEN SubSeq(out, 1, Len(out) - 1)
                               ELSE IF rooted THEN out ELSE Append(out, e)
                          ELSE Append(out, e)
         IN  CleanElements(Tail(elements), kept, rooted)

RECURSIVE JoinElements(_)
JoinElements(elements) ==
    IF elements = <<>> THEN <<>>
    ELSE IF Len(elements) = 1 THEN elements[1]
    ELSE elements[1] \o <<"/">> \o JoinElements(Tail(elements))

\* filepath.Clean
filepathClean(path) ==
    IF path = <<>> THEN <<".">>
    ELSE LET rooted == path[1] = "/"
             body == JoinElements(CleanElements(Elements(path), <<>>, rooted))
             cleaned == IF rooted THEN <<"/">> \o body ELSE body
         IN  IF cleaned = <<>> THEN <<".">> ELSE cleaned

\* filepath.Dir: all but the last element, cleaned
filepathDir(path) ==
    filepathClean(SubSeq(path, 1, IF Slashes(path) = {} THEN 0 ELSE Max(Slashes(path))))

\* filepath.Join of two elements: empty elements are ignored, the result is cleaned
filepathJoin(dir, name) ==
    IF dir = <<>> /\ name = <<>> THEN <<>>
    ELSE IF dir = <<>> THEN filepathClean(name)
    ELSE IF name = <<>> THEN filepathClean(dir)
    ELSE filepathClean(dir \o <<"/">> \o name)

\* the report takes the name of the archive without its extension
ReportNameIsBaseName(baseName) == baseName

\* baseName+"_validation.json"
ReportName(baseName) == baseName \o ReportSuffix

\* writeValidationReport: outputDir, baseName and reportPath
ComputeReportPath ==
    /\ pc = "writeValidationReport"
    /\ LET outputDir == filepathDir(outputZipPath)
           baseName == TrimSuffix(filepathBase(outputZipPath), filepathExt(outputZipPath))
       IN  reportPath' = filepathJoin(outputDir, ReportName(baseName))
    /\ pc' = "os.Create(reportPath)"
    /\ UNCHANGED <<previous, argsVars, repackageVars, validateVars, Validate, pendingNames,
                   outputFile, open, ioFault, outputZipPath>>

InitReportPath ==
    /\ outputZipPath \in ArchivePaths
    /\ reportPath = <<>>
    /\ files = <<>>
    /\ Validate = TRUE
    /\ outputFile = NoOutput
    /\ outputBefore = outputFile
    /\ reportFile = NoFile
    /\ reportBefore = reportFile
    /\ expectedFiles = EmptyMap
    /\ pc = "writeValidationReport"
    /\ idx = 1
    /\ deduplicatedFiles = EmptyMap
    /\ pendingNames = {}
    /\ outputFileRegistry = EmptyMap
    /\ fileMetadata = EmptyMap
    /\ runErr = NoError
    /\ hashed = {}
    /\ open = {}
    /\ ioFault = FALSE
    /\ actualFiles = EmptyMap
    /\ results = <<>>
    /\ allMatch = FALSE
    /\ valRet = FALSE
    /\ valErr = NoError
    /\ outcome = Exit(0, "")
    /\ previous = NoPrevious
    /\ ArgsIdle

NextReportPath == ComputeReportPath

SpecReportPath == InitReportPath /\ [][NextReportPath]_vars

ReportPathComputed == pc = "os.Create(reportPath)"

\* C29: the path at which writeValidationReport creates the report is never
\* the path of the archive: the two differ as written and as cleaned, and
\* they name different entries (the base names differ) of the same
\* directory, so os.Create(reportPath) does not truncate the archive.
C29_ReportPathIsNotArchivePath ==
    ReportPathComputed =>
        /\ reportPath # outputZipPath
        /\ reportPath # filepathClean(outputZipPath)
        /\ filepathBase(reportPath) # filepathBase(outputZipPath)
        /\ filepathDir(reportPath) = filepathDir(outputZipPath)
        /\ HasSuffix(reportPath, ReportSuffix)

\* the report of an archive that is itself named as a report is named
\* a_validation_validation.json
C29_Witness ==
    /\ ReportPathComputed
    /\ outputZipPath = <<"a">> \o ReportSuffix
    /\ reportPath = <<"a">> \o TrimSuffix(ReportSuffix, <<".", "j", "s", "o", "n">>) \o ReportSuffix

\* C30: when args.Parse has returned, with a configuration or with an
\* error, the ZIP reader that validateInputFile opened on the input
\* archive has been closed.
C30_InputReaderReleased == ParseReturned => "inputZipReader" \notin open

====
